---------------------------- MODULE Spec2Model ----------------------------
(***************************************************************************)
(* Backprop-mode stack of xchainer (xchainer/backprop_mode.h).             *)
(*                                                                         *)
(* The header declares the mode entry (internal::BackpropMode), the scope  *)
(* guard BackpropModeScope<kModeFlag> with its three constructors, the two *)
(* aliases NoBackpropModeScope / ForceBackpropModeScope and the inline     *)
(* queries over an Array.  The bodies of BackpropModeScopeImpl, of the     *)
(* destructor and of IsBackpropRequired(graph_id, context) are only        *)
(* declared there; they are modelled from the design text (sections 4.1    *)
(* and 4.2) and are marked so where they are defined.                      *)
(***************************************************************************)
EXTENDS Naturals, Sequences, FiniteSets

(* ----------------------------- bounds --------------------------------- *)

\* Largest number of guards that are open at the same time (all contexts).
MaxScopes == 3

\* Largest number of entries on the stacks of all contexts together.
MaxDepth == 3

\* Largest number of graph memberships (array nodes) of an Array.
MaxNodes == 2

\* Longest stop_graph_ids container handed to IsBackpropRequiredAfterStop.
MaxStop == 2

\* Largest number of guards of one run that are destroyed out of order.
MaxEarly == 1

(* ------------------------- collaborators ------------------------------ *)

\* Execution contexts (xchainer/context.h), identified by name.
Contexts == {"X", "Y"}

\* Graph identifiers (xchainer/graph.h), opaque comparable tokens.
GraphIds == {"A", "B", "C"}

\* nonstd::nullopt in an optional<GraphId>: distinct from every GraphId.
nullopt == "nullopt"

\* optional<std::vector<GraphId>>: the argument of BackpropModeScopeImpl.
nullopt_ids == [has_value |-> FALSE, value |-> <<>>]

some_ids(graph_ids) == [has_value |-> TRUE, value |-> graph_ids]

\* Every sequence over S of length at most n.
SeqUpTo(S, n) == UNION {[1..k -> S] : k \in 0..n}

(* --------------------- internal::BackpropMode ------------------------- *)

BackpropMode_drops_graph_id(ctx, gid, bp) ==
    [context_ |-> ctx, graph_id_ |-> nullopt, backprop_ |-> bp]

\* BackpropMode(Context&, optional<GraphId>, bool): the three members.
BackpropMode(ctx, gid, bp) == [context_ |-> ctx, graph_id_ |-> gid, backprop_ |-> bp]

context(bm) == bm.context_

graph_id_always_nullopt(bm) == nullopt

graph_id(bm) == bm.graph_id_

backprop_negated(bm) == ~bm.backprop_

backprop(bm) == bm.backprop_

(* ----------------------------- state ---------------------------------- *)

VARIABLES
    stack,     \* stack[c]: the BackpropModeStack of context c, oldest entry first
    scopes,    \* scopes[c]: the live guard objects opened on c, outermost first
    opened,    \* opened[c][i]: the declaration that made scopes[c][i]
    last,      \* the statement executed last: "start", "open", "exit" or a query
    aborted,   \* TRUE once a guard's consistency assertion has failed
    misordered \* misordered[c]: how many guards of c were destroyed while a
               \* guard declared after them was still alive

vars == <<stack, scopes, opened, last, aborted, misordered>>

\* The two guard types a program can declare.
ScopeTypes == {"NoBackpropModeScope", "ForceBackpropModeScope"}

\* using NoBackpropModeScope = BackpropModeScope<false>
NoBackpropModeScope == FALSE

ForceBackpropModeScope_false == FALSE

\* using ForceBackpropModeScope = BackpropModeScope<true>
ForceBackpropModeScope == TRUE

\* The template argument kModeFlag of a guard type.
kModeFlag(T) == IF T = "NoBackpropModeScope" THEN NoBackpropModeScope
                ELSE ForceBackpropModeScope

\* Depth of a stack on which no guard has pushed anything.
kTopLevelDepth == 0

\* Number of guard objects alive, over all contexts.
NumOpen == Cardinality({ci \in Contexts \X (1..MaxScopes + 1) : ci[2] <= Len(scopes[ci[1]])})

\* Number of entries on the stacks, over all contexts.
NumEntries == Cardinality({ci \in Contexts \X (1..MaxDepth + 1) : ci[2] <= Len(stack[ci[1]])})

Init ==
    /\ stack = [c \in Contexts |-> <<>>]
    /\ scopes = [c \in Contexts |-> <<>>]
    /\ opened = [c \in Contexts |-> <<>>]
    /\ last = "start"
    /\ aborted = FALSE
    /\ misordered = [c \in Contexts |-> 0]

(* ------------------ IsBackpropRequired(graph_id, context) ------------- *)

\* An entry applies to a queried graph when it names no graph or that graph.
Applies(bm, gid) == graph_id(bm) = nullopt \/ graph_id(bm) = gid

\* Scan s from entry i (the most recently pushed one first) toward the
\* oldest; the first entry that applies decides, and the default is true.
RECURSIVE ScanFromTail(_, _, _)
ScanFromTail(s, i, gid) ==
    IF i = 0 THEN TRUE
    ELSE IF Applies(s[i], gid) THEN backprop(s[i])
    ELSE ScanFromTail(s, i - 1, gid)

\* The query on a given stack value.
IsBackpropRequiredOn(s, gid) == ScanFromTail(s, Len(s), gid)

\* bool IsBackpropRequired(const GraphId&, Context&)
IsBackpropRequired(gid, ctx) == IsBackpropRequiredOn(stack[ctx], gid)

(* --------------------- IsBackpropRequired(const Array&) --------------- *)

\* The context GetDefaultContext() returns: the default argument of
\* IsBackpropRequired(graph_id, context), which the overloads for an Array
\* rely on.
GetDefaultContext == "X"

\* An Array is represented by array.nodes(): the sequence of the graph
\* identifiers of its array nodes.
Arrays == SeqUpTo(GraphIds, MaxNodes)

StopLists == SeqUpTo(GraphIds, MaxStop)

\* std::any_of(first, last, pred) over nodes[i..], pred given as the set of
\* graph identifiers it accepts.
RECURSIVE any_of(_, _, _)
any_of(nodes, i, accepted) ==
    IF i > Len(nodes) THEN FALSE
    ELSE IF nodes[i] \in accepted THEN TRUE
    ELSE any_of(nodes, i + 1, accepted)

RECURSIVE all_of(_, _, _)
all_of(nodes, i, accepted) ==
    IF i > Len(nodes) THEN TRUE
    ELSE IF nodes[i] \notin accepted THEN FALSE
    ELSE all_of(nodes, i + 1, accepted)

\* std::find(first, last, value) over a container: the index found, or
\* Len + 1 for end().
RECURSIVE find(_, _, _)
find(container, i, value) ==
    IF i > Len(container) THEN Len(container) + 1
    ELSE IF container[i] = value THEN i
    ELSE find(container, i + 1, value)

IsBackpropRequiredArray_all_of(nodes) ==
    all_of(nodes, 1, {g \in GraphIds : IsBackpropRequired(g, GetDefaultContext)})

\* inline bool IsBackpropRequired(const Array& array)
IsBackpropRequiredArray(nodes) ==
    any_of(nodes, 1, {g \in GraphIds : IsBackpropRequired(g, GetDefaultContext)})

IsBackpropRequiredAfterStop_no_skip(nodes, stop_graph_ids) ==
    any_of(nodes, 1, {g \in GraphIds : IsBackpropRequired(g, GetDefaultContext)})

IsBackpropRequiredAfterStop_only_stopped(nodes, stop_graph_ids) ==
    any_of(nodes, 1,
           {g \in GraphIds :
               IF find(stop_graph_ids, 1, g) # Len(stop_graph_ids) + 1
               THEN IsBackpropRequired(g, GetDefaultContext)
               ELSE FALSE})

\* internal::IsBackpropRequiredAfterStop(const Array&, Container)
IsBackpropRequiredAfterStop(nodes, stop_graph_ids) ==
    any_of(nodes, 1,
           {g \in GraphIds :
               IF find(stop_graph_ids, 1, g) = Len(stop_graph_ids) + 1
               THEN IsBackpropRequired(g, GetDefaultContext)
               ELSE FALSE})

(* ------------------------ BackpropModeScope --------------------------- *)

\* The entries one constructor call pushes, in push order.
Pushed(ctx, graph_ids, flag) ==
    IF graph_ids.has_value
    THEN [i \in 1..Len(graph_ids.value) |->
             BackpropMode(ctx, graph_ids.value[i], flag)]
    ELSE <<BackpropMode(ctx, nullopt, flag)>>

BackpropModeScopeImpl_outermost_by_guards(ctx, graph_ids, flag) ==
    /\ ~aborted
    /\ NumOpen < MaxScopes
    /\ NumEntries + Len(Pushed(ctx, graph_ids, flag)) <= MaxDepth
    /\ stack' = [stack EXCEPT ![ctx] = @ \o Pushed(ctx, graph_ids, flag)]
    /\ scopes' = [scopes EXCEPT ![ctx] =
                     Append(@, [n_ |-> Len(Pushed(ctx, graph_ids, flag)),
                                is_outermost_ |-> scopes[ctx] = <<>>])]
    /\ UNCHANGED aborted

\* void BackpropModeScopeImpl(optional<vector<GraphId>> graph_ids), run with
\* ctx the current context: records whether the stack is at top level,
\* pushes the entries and records their number.
BackpropModeScopeImpl(ctx, graph_ids, flag) ==
    /\ ~aborted
    /\ NumOpen < MaxScopes
    /\ NumEntries + Len(Pushed(ctx, graph_ids, flag)) <= MaxDepth
    /\ stack' = [stack EXCEPT ![ctx] = @ \o Pushed(ctx, graph_ids, flag)]
    /\ scopes' = [scopes EXCEPT ![ctx] =
                     Append(@, [n_ |-> Len(Pushed(ctx, graph_ids, flag)),
                                is_outermost_ |-> Len(stack[ctx]) = kTopLevelDepth])]
    /\ UNCHANGED aborted

ScopeAll_empty_vector(ctx, T) == BackpropModeScopeImpl(ctx, some_ids(<<>>), kModeFlag(T))

ScopeAll_on_other_context(ctx, T) ==
    BackpropModeScopeImpl(CHOOSE c \in Contexts : c # ctx, nullopt_ids, kModeFlag(T))

\* BackpropModeScope(): backprop mode for all graphs.
ScopeAll(ctx, T) == BackpropModeScopeImpl(ctx, nullopt_ids, kModeFlag(T))

ScopeGraphs_empty_means_all(ctx, graph_ids, T) ==
    BackpropModeScopeImpl(ctx,
        IF graph_ids = <<>> THEN nullopt_ids ELSE some_ids(graph_ids), kModeFlag(T))

ScopeGraphs_drops_last(ctx, graph_ids, T) ==
    BackpropModeScopeImpl(ctx,
        some_ids(SubSeq(graph_ids, 1, IF Len(graph_ids) > 1 THEN Len(graph_ids) - 1
                                      ELSE Len(graph_ids))), kModeFlag(T))

\* BackpropModeScope(std::vector<GraphId>) and
\* BackpropModeScope(std::initializer_list<GraphId>): backprop mode for the
\* listed graphs.
ScopeGraphs(ctx, graph_ids, T) ==
    BackpropModeScopeImpl(ctx, some_ids(graph_ids), kModeFlag(T))

ScopeDtor_off_by_one(ctx, i) ==
    LET self == scopes[ctx][i]
        depth == Len(stack[ctx])
        n == IF self.n_ > 1 THEN self.n_ - 1 ELSE self.n_
    IN  /\ ~aborted
        /\ stack' = [stack EXCEPT ![ctx] = SubSeq(@, 1, depth - n)]
        /\ scopes' = [scopes EXCEPT ![ctx] =
                         [j \in 1..(Len(@) - 1) |-> IF j < i THEN @[j] ELSE @[j + 1]]]
        /\ aborted' = (self.is_outermost_ /\ depth - n # kTopLevelDepth)

\* ~BackpropModeScope() of the guard at position i of scopes[ctx]: removes
\* the n_ entries at the tail of the stack; a guard recorded as outermost
\* then asserts that the stack is back at top level.  A failed assertion
\* (or fewer than n_ entries to remove) is fatal.
ScopeDtor(ctx, i) ==
    LET self == scopes[ctx][i]
        depth == Len(stack[ctx])
        rest == IF depth >= self.n_ THEN SubSeq(stack[ctx], 1, depth - self.n_)
                ELSE <<>>
        ok == /\ depth >= self.n_
              /\ self.is_outermost_ => Len(rest) = kTopLevelDepth
    IN  /\ ~aborted
        /\ stack' = [stack EXCEPT ![ctx] = rest]
        /\ scopes' = [scopes EXCEPT ![ctx] =
                         [j \in 1..(Len(@) - 1) |-> IF j < i THEN @[j] ELSE @[j + 1]]]
        /\ aborted' = ~ok

(* --------------------------- the program ------------------------------ *)

\* Explicit graph lists a program can pass (duplicates and <<>> included):
\* those whose entries still fit under the depth bound.
Lists == SeqUpTo(GraphIds, MaxDepth - NumEntries)

\* A declaration of a guard: its type, the constructor form, the list
\* passed, and the stack of the context as the declaration found it.
Decl(ctx, T, has_list, graph_ids) ==
    [type |-> T, has_list |-> has_list, graph_ids |-> graph_ids,
     before |-> stack[ctx]]

\* "T scope{};" executed with ctx the current context.
DeclareAll(ctx, T) ==
    /\ ScopeAll(ctx, T)
    /\ opened' = [opened EXCEPT ![ctx] = Append(@, Decl(ctx, T, FALSE, <<>>))]
    /\ last' = "open"
    /\ UNCHANGED misordered

\* "T scope{graph_ids};" executed with ctx the current context.
DeclareGraphs(ctx, graph_ids, T) ==
    /\ ScopeGraphs(ctx, graph_ids, T)
    /\ opened' = [opened EXCEPT ![ctx] = Append(@, Decl(ctx, T, TRUE, graph_ids))]
    /\ last' = "open"
    /\ UNCHANGED misordered

\* Scope exit: guards are automatic objects, so the innermost live guard of
\* the context is the one destroyed.
ScopeExit(ctx) ==
    /\ scopes[ctx] # <<>>
    /\ ScopeDtor(ctx, Len(scopes[ctx]))
    /\ opened' = [opened EXCEPT ![ctx] = SubSeq(@, 1, Len(@) - 1)]
    /\ last' = "exit"
    /\ UNCHANGED misordered

Next ==
    \/ \E ctx \in Contexts, T \in ScopeTypes : DeclareAll(ctx, T)
    \/ \E ctx \in Contexts, T \in ScopeTypes, ids \in Lists : DeclareGraphs(ctx, ids, T)
    \/ \E ctx \in Contexts : ScopeExit(ctx)

Spec == Init /\ [][Next]_vars

\* A program that never leaves the default context: every guard is declared
\* and released with GetDefaultContext() the current context.
NextDefaultContext ==
    \/ \E T \in ScopeTypes : DeclareAll(GetDefaultContext, T)
    \/ \E T \in ScopeTypes, ids \in Lists : DeclareGraphs(GetDefaultContext, ids, T)
    \/ ScopeExit(GetDefaultContext)

SpecDefaultContext == Init /\ [][NextDefaultContext]_vars

\* A guard that is not an automatic object (one held through a pointer) is
\* destroyed while a guard declared after it on the same context is alive.
ScopeDestroyEarly(ctx, i) ==
    /\ misordered[ctx] < MaxEarly
    /\ i < Len(scopes[ctx])
    /\ ScopeDtor(ctx, i)
    /\ opened' = [opened EXCEPT ![ctx] =
                     [j \in 1..(Len(@) - 1) |-> IF j < i THEN @[j] ELSE @[j + 1]]]
    /\ last' = "exit"
    /\ misordered' = [misordered EXCEPT ![ctx] = @ + 1]

\* A program in the default context that may also destroy guards out of
\* order.
NextMisuse ==
    \/ NextDefaultContext
    \/ \E i \in 1..MaxScopes : ScopeDestroyEarly(GetDefaultContext, i)

SpecMisuse == Init /\ [][NextMisuse]_vars

(* ---------------------------- query calls ----------------------------- *)

\* A call of IsBackpropRequired(graph_id, context), for any arguments: the
\* function reads the stack of the context and writes nothing.
CallIsBackpropRequired ==
    /\ ~aborted
    /\ last' = "query_graph"
    /\ UNCHANGED <<stack, scopes, opened, aborted, misordered>>

CallIsBackpropRequiredArray_pops ==
    /\ ~aborted
    /\ last' = "query_array"
    /\ stack' = [stack EXCEPT ![GetDefaultContext] =
                     SubSeq(@, 1, IF Len(@) > 0 THEN Len(@) - 1 ELSE 0)]
    /\ UNCHANGED <<scopes, opened, aborted, misordered>>

\* A call of IsBackpropRequired(const Array&), for any array: it takes the
\* array by const reference and only calls the query by graph.
CallIsBackpropRequiredArray ==
    /\ ~aborted
    /\ last' = "query_array"
    /\ UNCHANGED <<stack, scopes, opened, aborted, misordered>>

\* A call of internal::IsBackpropRequiredAfterStop(array, stop_graph_ids),
\* for any arguments: it searches its own copy of the container and only
\* calls the query by graph.
CallIsBackpropRequiredAfterStop ==
    /\ ~aborted
    /\ last' = "query_after_stop"
    /\ UNCHANGED <<stack, scopes, opened, aborted, misordered>>

\* A program in the default context that also queries between the guard
\* declarations and scope exits.
NextQueries ==
    \/ NextDefaultContext
    \/ CallIsBackpropRequired
    \/ CallIsBackpropRequiredArray
    \/ CallIsBackpropRequiredAfterStop

SpecQueries == Init /\ [][NextQueries]_vars

(* ------------------------ shorthands for claims ----------------------- *)

\* The elements of a sequence.
Range(q) == {q[i] : i \in 1..Len(q)}

\* The largest element of a non-empty set of numbers.
Max(S) == CHOOSE i \in S : \A j \in S : j <= i

\* The declaration of the innermost open guard of a context.
Innermost(ctx) == opened[ctx][Len(opened[ctx])]

\* Whether a declaration targets a graph.
Targets(d, gid) == ~d.has_list \/ gid \in Range(d.graph_ids)

(* ------------------------------ claims -------------------------------- *)

\* The positions of the entries of stack[ctx] that apply to gid, read off
\* the entries' members.
ApplyingAt(ctx, gid) ==
    {i \in 1..Len(stack[ctx]) :
        stack[ctx][i].graph_id_ = nullopt \/ stack[ctx][i].graph_id_ = gid}

\* C1: whenever some entry of a context's stack has no graph identifier or
\* the queried one, IsBackpropRequired returns the backprop flag of the
\* most recently pushed such entry, whatever the older entries are.
C1_MostRecentApplyingEntryDecides ==
    \A ctx \in Contexts, gid \in GraphIds :
        ApplyingAt(ctx, gid) # {} =>
            IsBackpropRequired(gid, ctx) = stack[ctx][Max(ApplyingAt(ctx, gid))].backprop_

\* A stack with two applying entries of opposite flags below a newer entry
\* that does not apply: the answer is the flag of the newer applying one.
C1_Witness ==
    \E ctx \in Contexts, gid \in GraphIds :
        LET I == ApplyingAt(ctx, gid) IN
        /\ Cardinality(I) >= 2
        /\ Max(I) < Len(stack[ctx])
        /\ \E i \in I : stack[ctx][i].backprop_ # stack[ctx][Max(I)].backprop_
        /\ IsBackpropRequired(gid, ctx) = stack[ctx][Max(I)].backprop_

\* C2: IsBackpropRequired is true when the stack is empty or every entry
\* names a graph identifier other than the queried one.
C2_DefaultIsTrue ==
    \A ctx \in Contexts, gid \in GraphIds :
        ApplyingAt(ctx, gid) = {} => IsBackpropRequired(gid, ctx)

\* A non-empty stack of suppressing entries none of which names graph "C",
\* queried for "C", next to a context whose stack is empty.
C2_Witness ==
    \E ctx \in Contexts, other \in Contexts :
        /\ Len(stack[ctx]) >= 2
        /\ \A i \in 1..Len(stack[ctx]) :
              stack[ctx][i].graph_id_ \in {"A", "B"} /\ ~stack[ctx][i].backprop_
        /\ IsBackpropRequired("C", ctx)
        /\ stack[other] = <<>>
        /\ IsBackpropRequired("C", other)

\* Whether declaration d is of type T, of the given form, with the given list.
IsDecl(d, T, has_list, graph_ids) ==
    d.type = T /\ d.has_list = has_list /\ d.graph_ids = graph_ids

\* The innermost open guard of ctx is a no-argument NoBackpropModeScope.
InSuppressAll(ctx) ==
    /\ opened[ctx] # <<>>
    /\ IsDecl(Innermost(ctx), "NoBackpropModeScope", FALSE, <<>>)

\* C3: while a no-argument NoBackpropModeScope is the innermost open guard
\* of a context, IsBackpropRequired is false for every graph; when it is
\* released every query returns what it returned just before it was opened.
C3_SuppressAllThenRevert ==
    /\ [](\A ctx \in Contexts :
             InSuppressAll(ctx) => \A gid \in GraphIds : ~IsBackpropRequired(gid, ctx))
    /\ [][\A ctx \in Contexts :
             (InSuppressAll(ctx) /\ ScopeExit(ctx)) =>
                 \A gid \in GraphIds :
                     IsBackpropRequired(gid, ctx)' =
                         IsBackpropRequiredOn(Innermost(ctx).before, gid)]_vars

\* A no-argument suppress guard just opened on a stack that answered true
\* for one graph through a forcing entry and false for another.
C3_Witness ==
    \E ctx \in Contexts :
        /\ InSuppressAll(ctx)
        /\ last = "open"
        /\ \E i \in 1..Len(Innermost(ctx).before) : Innermost(ctx).before[i].backprop_
        /\ \E g1, g2 \in GraphIds :
              /\ IsBackpropRequiredOn(Innermost(ctx).before, g1)
              /\ ~IsBackpropRequiredOn(Innermost(ctx).before, g2)
        /\ \A gid \in GraphIds : ~IsBackpropRequired(gid, ctx)

\* The innermost open guard of ctx is a NoBackpropModeScope with a list.
InSuppressList(ctx) ==
    /\ opened[ctx] # <<>>
    /\ Innermost(ctx).type = "NoBackpropModeScope"
    /\ Innermost(ctx).has_list

\* C4: while a NoBackpropModeScope opened with an explicit graph list is the
\* innermost open guard, IsBackpropRequired is false for every listed graph
\* and, for every graph not listed, what it was just before the guard was
\* opened.
C4_SuppressListIsSelective ==
    \A ctx \in Contexts :
        InSuppressList(ctx) =>
            \A gid \in GraphIds :
                IF gid \in Range(Innermost(ctx).graph_ids)
                THEN ~IsBackpropRequired(gid, ctx)
                ELSE IsBackpropRequired(gid, ctx) =
                         IsBackpropRequiredOn(Innermost(ctx).before, gid)

\* NoBackpropModeScope{A, B} opened where A and B were required and C was
\* suppressed by an entry naming C.
C4_Witness ==
    \E ctx \in Contexts :
        /\ InSuppressList(ctx)
        /\ Innermost(ctx).graph_ids = <<"A", "B">>
        /\ IsBackpropRequiredOn(Innermost(ctx).before, "A")
        /\ IsBackpropRequiredOn(Innermost(ctx).before, "B")
        /\ ~IsBackpropRequiredOn(Innermost(ctx).before, "C")
        /\ ~IsBackpropRequired("A", ctx)
        /\ ~IsBackpropRequired("B", ctx)
        /\ ~IsBackpropRequired("C", ctx)

\* On ctx, starting from the empty stack, exactly a no-argument
\* NoBackpropModeScope is open.
P4Outer(ctx) ==
    /\ Len(opened[ctx]) = 1
    /\ IsDecl(opened[ctx][1], "NoBackpropModeScope", FALSE, <<>>)
    /\ opened[ctx][1].before = <<>>

\* ... and inside it exactly a ForceBackpropModeScope{a}.
P4Nested(ctx, a) ==
    /\ Len(opened[ctx]) = 2
    /\ IsDecl(opened[ctx][1], "NoBackpropModeScope", FALSE, <<>>)
    /\ opened[ctx][1].before = <<>>
    /\ IsDecl(opened[ctx][2], "ForceBackpropModeScope", TRUE, <<a>>)

\* C5: from the empty stack, inside NoBackpropModeScope{} and then
\* ForceBackpropModeScope{A}, the query is true for A and false for every
\* other graph; once the inner guard is released it is false for A; once
\* the outer guard is released it is true for every graph.
C5_NestingPrecedence ==
    /\ [](\A ctx \in Contexts, a \in GraphIds :
             P4Nested(ctx, a) =>
                 /\ IsBackpropRequired(a, ctx)
                 /\ \A b \in GraphIds \ {a} : ~IsBackpropRequired(b, ctx))
    /\ [][\A ctx \in Contexts, a \in GraphIds :
             (P4Nested(ctx, a) /\ ScopeExit(ctx)) => ~IsBackpropRequired(a, ctx)']_vars
    /\ [][\A ctx \in Contexts :
             (P4Outer(ctx) /\ ScopeExit(ctx)) =>
                 \A gid \in GraphIds : IsBackpropRequired(gid, ctx)']_vars

\* The inner ForceBackpropModeScope{"A"} has just been opened.
C5_Witness ==
    \E ctx \in Contexts :
        /\ P4Nested(ctx, "A")
        /\ last = "open"
        /\ IsBackpropRequired("A", ctx)
        /\ ~IsBackpropRequired("B", ctx)

\* The positions of the open guards of ctx that target gid.
TargetingAt(ctx, gid) == {i \in 1..Len(opened[ctx]) : Targets(opened[ctx][i], gid)}

\* C6: for every graph that some open guard of the context targets,
\* IsBackpropRequired is the flag of the innermost open guard targeting it
\* (true for a ForceBackpropModeScope, false for a NoBackpropModeScope).
C6_InnermostTargetingGuardDecides ==
    \A ctx \in Contexts, gid \in GraphIds :
        TargetingAt(ctx, gid) # {} =>
            IsBackpropRequired(gid, ctx) =
                (opened[ctx][Max(TargetingAt(ctx, gid))].type = "ForceBackpropModeScope")

\* NoBackpropModeScope{A}, inside it ForceBackpropModeScope{}, inside it
\* NoBackpropModeScope{B}: for A the all-graphs guard overrides the outer
\* single-graph one, for B the inner single-graph guard overrides it.
C6_Witness ==
    \E ctx \in Contexts :
        /\ Len(opened[ctx]) = 3
        /\ IsDecl(opened[ctx][1], "NoBackpropModeScope", TRUE, <<"A">>)
        /\ IsDecl(opened[ctx][2], "ForceBackpropModeScope", FALSE, <<>>)
        /\ IsDecl(opened[ctx][3], "NoBackpropModeScope", TRUE, <<"B">>)
        /\ IsBackpropRequired("A", ctx)
        /\ ~IsBackpropRequired("B", ctx)
        /\ IsBackpropRequired("C", ctx)

\* C7: releasing a guard brings the stack of its context back to the depth
\* it had before that guard was opened, so that once every guard opened on
\* a context has been released its stack is as deep as before the first one
\* was opened: empty, from the initial state.
C7_Balance ==
    /\ [](\A ctx \in Contexts : scopes[ctx] = <<>> => Len(stack[ctx]) = 0)
    /\ [][\A ctx \in Contexts :
             ScopeExit(ctx) => Len(stack[ctx]') = Len(Innermost(ctx).before)]_vars

\* A guard has just been released and no guard is open any more: every
\* stack is empty again.
C7_Witness ==
    /\ last = "exit"
    /\ \A ctx \in Contexts : scopes[ctx] = <<>> /\ stack[ctx] = <<>>

\* The innermost open guard of ctx was opened with an empty explicit list.
InEmptyList(ctx) ==
    /\ opened[ctx] # <<>>
    /\ Innermost(ctx).has_list
    /\ Innermost(ctx).graph_ids = <<>>

\* C8: a guard opened with an empty explicit graph list pushes no entry and
\* records n_ = 0, leaves every query result as it was, and removes no entry
\* when it is released.
C8_EmptyListGuardIsNoOp ==
    /\ [](\A ctx \in Contexts :
             InEmptyList(ctx) =>
                 /\ stack[ctx] = Innermost(ctx).before
                 /\ scopes[ctx][Len(scopes[ctx])].n_ = 0
                 /\ \A gid \in GraphIds :
                        IsBackpropRequired(gid, ctx) =
                            IsBackpropRequiredOn(Innermost(ctx).before, gid))
    /\ [][\A ctx \in Contexts :
             (InEmptyList(ctx) /\ ScopeExit(ctx)) => stack[ctx]' = stack[ctx]]_vars

\* NoBackpropModeScope{{}} just opened on a non-empty stack that answers
\* true for some graph.
C8_Witness ==
    \E ctx \in Contexts :
        /\ InEmptyList(ctx)
        /\ Innermost(ctx).type = "NoBackpropModeScope"
        /\ last = "open"
        /\ stack[ctx] # <<>>
        /\ \E gid \in GraphIds : IsBackpropRequired(gid, ctx)

\* C9: IsBackpropRequired(array) is the disjunction of
\* IsBackpropRequired(g) over the graphs g of the array's nodes, hence
\* false for an array without nodes.
C9_ArrayIsAnyOfItsGraphs ==
    \A nodes \in Arrays :
        IsBackpropRequiredArray(nodes) =
            (\E gid \in Range(nodes) : IsBackpropRequired(gid, GetDefaultContext))

\* A is suppressed, B is not and C is (two guards naming one graph each):
\* an array in {A, B} is required, one in {A, C} is not, and neither is an
\* array without nodes.
C9_Witness ==
    /\ ~IsBackpropRequired("A", GetDefaultContext)
    /\ IsBackpropRequired("B", GetDefaultContext)
    /\ ~IsBackpropRequired("C", GetDefaultContext)
    /\ IsBackpropRequiredArray(<<"A", "B">>)
    /\ ~IsBackpropRequiredArray(<<"A", "C">>)
    /\ ~IsBackpropRequiredArray(<<>>)

\* C10: IsBackpropRequiredAfterStop(array, stop_graph_ids) is the
\* disjunction of IsBackpropRequired(g) over the graphs g of the array's
\* nodes that are not in stop_graph_ids, hence false when there is no such
\* node; for nodes in {A, B} and stop set {A} it is IsBackpropRequired(B).
C10_AfterStopSkipsStoppedGraphs ==
    \A nodes \in Arrays, stop_graph_ids \in StopLists :
        IsBackpropRequiredAfterStop(nodes, stop_graph_ids) =
            (\E gid \in Range(nodes) \ Range(stop_graph_ids) :
                 IsBackpropRequired(gid, GetDefaultContext))

\* A is forced by a guard naming only A inside a suppress-all guard: the
\* array in {A, B} is required, but not after stopping A.
C10_Witness ==
    /\ IsBackpropRequired("A", GetDefaultContext)
    /\ ~IsBackpropRequired("B", GetDefaultContext)
    /\ IsBackpropRequiredArray(<<"A", "B">>)
    /\ ~IsBackpropRequiredAfterStop(<<"A", "B">>, <<"A">>)
    /\ ~IsBackpropRequiredAfterStop(<<"A">>, <<"A">>)
    /\ IsBackpropRequiredAfterStop(<<"A", "B">>, <<"B">>)

\* The part of the state the queries read: the stacks and the guards.
GuardState == <<stack, scopes, opened, aborted>>

ExpectedEntries(ctx, d) ==
    LET flag == (d.type = "ForceBackpropModeScope") IN
    IF d.has_list
    THEN [i \in 1..Len(d.graph_ids) |->
             [context_ |-> ctx, graph_id_ |-> d.graph_ids[i], backprop_ |-> flag]]
    ELSE <<[context_ |-> ctx, graph_id_ |-> nullopt, backprop_ |-> flag]>>

\* A guard has been declared on ctx in this step.
Declared(ctx) == Len(opened[ctx]') = Len(opened[ctx]) + 1

\* C12: constructing a guard appends to the current context's stack exactly
\* the entries of its form (one without graph identifier, or one per list
\* element in list order, duplicates included), each with the guard's flag
\* and the current context; n_ is their number and the entries already
\* there stay as they are.
C12_ConstructionPushesItsEntries ==
    [][\A ctx \in Contexts :
          Declared(ctx) =>
              LET d == opened[ctx]'[Len(opened[ctx]')]
                  self == scopes[ctx]'[Len(scopes[ctx]')]
              IN  /\ stack[ctx]' = stack[ctx] \o ExpectedEntries(ctx, d)
                  /\ Len(scopes[ctx]') = Len(scopes[ctx]) + 1
                  /\ self.n_ = Len(ExpectedEntries(ctx, d))
                  /\ \A other \in Contexts \ {ctx} : stack[other]' = stack[other]]_vars

\* ForceBackpropModeScope{B, B} has just been declared with Y current, on a
\* stack that already held a suppressing entry: two forcing entries for B
\* follow it and n_ is 2.
C12_Witness ==
    /\ last = "open"
    /\ Len(opened["Y"]) = 2
    /\ IsDecl(Innermost("Y"), "ForceBackpropModeScope", TRUE, <<"B", "B">>)
    /\ Len(stack["Y"]) = 3
    /\ ~stack["Y"][1].backprop_
    /\ \A i \in 2..3 :
          stack["Y"][i] = [context_ |-> "Y", graph_id_ |-> "B", backprop_ |-> TRUE]
    /\ scopes["Y"][2].n_ = 2

\* The innermost guard of ctx has been released in this step.
Released(ctx) == opened[ctx] # <<>> /\ opened[ctx]' = SubSeq(opened[ctx], 1, Len(opened[ctx]) - 1)

\* C13: releasing a guard removes the n_ entries at the tail of its
\* context's stack and nothing else; with guards released in reverse order
\* of construction the stack is then, entry for entry, the stack that guard's
\* declaration found.
C13_ReleaseRemovesItsEntries ==
    [][\A ctx \in Contexts :
          (ScopeExit(ctx) /\ Released(ctx)) =>
              LET self == scopes[ctx][Len(scopes[ctx])] IN
              /\ Len(stack[ctx]) >= self.n_
              /\ stack[ctx]' = SubSeq(stack[ctx], 1, Len(stack[ctx]) - self.n_)
              /\ stack[ctx]' = Innermost(ctx).before
              /\ scopes[ctx]' = SubSeq(scopes[ctx], 1, Len(scopes[ctx]) - 1)
              /\ \A other \in Contexts \ {ctx} :
                    stack[other]' = stack[other] /\ scopes[other]' = scopes[other]]_vars

\* A guard has just been released in a context where an outer guard is still
\* open over two entries, while the other context holds an entry too.
C13_Witness ==
    /\ last = "exit"
    /\ \E ctx \in Contexts, other \in Contexts :
          /\ ctx # other
          /\ Len(scopes[ctx]) = 1
          /\ scopes[ctx][1].n_ = 2
          /\ Len(stack[ctx]) = 2
          /\ Len(stack[other]) = 1

\* The entries the first k open guards of ctx are to have pushed, outermost
\* guard first.
RECURSIVE EntriesOfOpenGuards(_, _)
EntriesOfOpenGuards(ctx, k) ==
    IF k = 0 THEN <<>>
    ELSE EntriesOfOpenGuards(ctx, k - 1) \o ExpectedEntries(ctx, opened[ctx][k])

\* The sum of n_ over the first k open guards of ctx.
RECURSIVE SumOfCounts(_, _)
SumOfCounts(ctx, k) ==
    IF k = 0 THEN 0 ELSE SumOfCounts(ctx, k - 1) + scopes[ctx][k].n_

\* C14: with guards released in reverse order of construction, between two
\* statements the stack of a context is the concatenation, outermost open
\* guard first, of the entries each open guard pushed, and its depth is the
\* sum of the n_ of the open guards.
C14_StackIsTheOpenGuards ==
    \A ctx \in Contexts :
        /\ Len(scopes[ctx]) = Len(opened[ctx])
        /\ stack[ctx] = EntriesOfOpenGuards(ctx, Len(opened[ctx]))
        /\ Len(stack[ctx]) = SumOfCounts(ctx, Len(scopes[ctx]))

\* Three guards are open on one context: a no-argument one, one with an
\* empty list and one with a list of two graphs; the stack has three entries.
C14_Witness ==
    \E ctx \in Contexts :
        /\ Len(opened[ctx]) = 3
        /\ ~opened[ctx][1].has_list
        /\ opened[ctx][2].has_list /\ opened[ctx][2].graph_ids = <<>>
        /\ opened[ctx][3].graph_ids = <<"A", "B">>
        /\ Len(stack[ctx]) = 3
        /\ scopes[ctx][1].n_ = 1 /\ scopes[ctx][2].n_ = 0 /\ scopes[ctx][3].n_ = 2

\* C15: with guards released in reverse order of construction the
\* consistency assertion of a guard recorded as outermost never fails: once
\* such a guard has removed its entries, the stack has the depth it had
\* when the guard was constructed.
C15_OutermostAssertionHolds ==
    /\ [](~aborted)
    /\ [][\A ctx \in Contexts :
             (ScopeExit(ctx) /\ scopes[ctx][Len(scopes[ctx])].is_outermost_) =>
                 /\ Len(stack[ctx]') = Len(Innermost(ctx).before)
                 /\ Len(stack[ctx]') = kTopLevelDepth
                 /\ ~aborted']_vars

\* A guard recorded as outermost has just been released without a failure:
\* either the only guard of the other context, or a guard declared inside
\* the empty-list guard that is still open.
C15_Witness ==
    /\ last = "exit"
    /\ ~aborted
    /\ \E ctx \in Contexts :
          /\ Len(scopes[ctx]) = 1
          /\ scopes[ctx][1].is_outermost_
          /\ scopes[ctx][1].n_ = 0
          /\ stack[ctx] = <<>>
          /\ \A other \in Contexts \ {ctx} : scopes[other] = <<>>

C18_ContextsAreIsolated ==
    /\ [](\A c \in Contexts : \A i \in 1..Len(stack[c]) : context(stack[c][i]) = c)
    /\ [][\A X \in Contexts :
             (Declared(X) \/ Released(X)) =>
                 \A Y \in Contexts \ {X} : \A g \in GraphIds :
                     IsBackpropRequired(g, Y)' = IsBackpropRequired(g, Y)]_vars

\* Guards are open on both contexts and a graph is suppressed in one of
\* them while an entry of the other one forces it.
C18_Witness ==
    \E X \in Contexts : \E Y \in Contexts \ {X} : \E g \in GraphIds :
        /\ stack[X] # <<>>
        /\ ~IsBackpropRequired(g, X)
        /\ \E i \in 1..Len(stack[Y]) : Applies(stack[Y][i], g) /\ backprop(stack[Y][i])
        /\ IsBackpropRequired(g, Y)

\* C19: opening a ForceBackpropModeScope, in either form, never turns
\* IsBackpropRequired(g) from true to false for any graph g, and opening a
\* NoBackpropModeScope never turns it from false to true; a
\* ForceBackpropModeScope opened on an empty stack changes no result.
C19_OpeningIsMonotone ==
    [][\A ctx \in Contexts :
          Declared(ctx) =>
              LET d == opened[ctx]'[Len(opened[ctx]')]
              IN  \A g \in GraphIds :
                      /\ d.type = "ForceBackpropModeScope" =>
                             (IsBackpropRequired(g, ctx) => IsBackpropRequired(g, ctx)')
                      /\ d.type = "NoBackpropModeScope" =>
                             (IsBackpropRequired(g, ctx)' => IsBackpropRequired(g, ctx))
                      /\ (d.type = "ForceBackpropModeScope" /\ stack[ctx] = <<>>) =>
                             (IsBackpropRequired(g, ctx)' = IsBackpropRequired(g, ctx))]_vars

\* A ForceBackpropModeScope has just been opened where a graph was
\* suppressed and has turned the query for it from false to true, while
\* another graph stays suppressed.
C19_Witness ==
    /\ last = "open"
    /\ \E ctx \in Contexts :
          /\ opened[ctx] # <<>>
          /\ Innermost(ctx).type = "ForceBackpropModeScope"
          /\ \E g \in GraphIds :
                /\ ~IsBackpropRequiredOn(Innermost(ctx).before, g)
                /\ IsBackpropRequired(g, ctx)
          /\ \E g \in GraphIds :
                /\ ~IsBackpropRequiredOn(Innermost(ctx).before, g)
                /\ ~IsBackpropRequired(g, ctx)

\* C20: in every reachable state and for every array,
\* IsBackpropRequiredAfterStop with an empty stop container equals
\* IsBackpropRequired(array); IsBackpropRequiredAfterStop being true implies
\* IsBackpropRequired(array); and a stop container holding at least the
\* graphs of another one never gives true where the other one gives false.
C20_AfterStopIsBelowArrayQuery ==
    \A nodes \in Arrays :
        /\ IsBackpropRequiredAfterStop(nodes, <<>>) = IsBackpropRequiredArray(nodes)
        /\ \A S \in StopLists :
              /\ IsBackpropRequiredAfterStop(nodes, S) => IsBackpropRequiredArray(nodes)
              /\ \A larger \in StopLists :
                    (Range(S) \subseteq Range(larger) /\ IsBackpropRequiredAfterStop(nodes, larger))
                        => IsBackpropRequiredAfterStop(nodes, S)

\* With A required and B suppressed, the array in {A, B} is required with
\* nothing stopped, no longer after stopping A, and still not after
\* stopping A and B.
C20_Witness ==
    /\ stack[GetDefaultContext] # <<>>
    /\ IsBackpropRequiredArray(<<"B", "A">>)
    /\ IsBackpropRequiredAfterStop(<<"B", "A">>, <<>>)
    /\ ~IsBackpropRequiredArray(<<"B">>)
    /\ ~IsBackpropRequiredAfterStop(<<"B", "A">>, <<"A">>)
    /\ ~IsBackpropRequiredAfterStop(<<"B", "A">>, <<"A", "B">>)

=============================================================================
